---- MODULE Spec2Model ----
(***************************************************************************)
(* Scheduled-publication core of mcp-linkedin.                             *)
(*                                                                         *)
(* The store is the scheduled_posts table of database.js, the daemon is    *)
(* scheduler.js (processDuePosts / startScheduler) and the tool layer is   *)
(* the scheduling tools of tools.js that act on one record (schedule,      *)
(* cancel, get).  The daemon and the tool server are separate processes    *)
(* over one SQLite file, so the unit of interleaving is the SQL statement; *)
(* inside the daemon the only suspension point of a tick is                *)
(* `await publishPost(post)`.                                              *)
(*                                                                         *)
(* Timestamps are kept as the strings the code stores and compares.  All   *)
(* strings share the prefix "YYYY-MM-DDTHH:MM:S" (same date, hour, minute  *)
(* and tens of seconds), so only the suffix that follows it is modelled:   *)
(* the units digit of the seconds, an optional "." and fraction digits,    *)
(* and the final "Z".  Characters are their ASCII codes, because SQLite    *)
(* compares TEXT bytewise.  The columns commentary, url, visibility and    *)
(* created_at are written once by the INSERT and never read by any         *)
(* condition of the code modelled here; they are left out.                 *)
(***************************************************************************)
EXTENDS Integers, Sequences, FiniteSets, TLC

\* ------------------------------------------------------------------ bounds
MaxPosts == 2        \* records the store can hold
MaxTicks == 2        \* executions of processDuePosts that may be in flight
MaxClock == 2        \* half seconds the clock may advance
MaxCalls == 4        \* publishPost calls the adapter answers

\* ------------------------------------------------------- program constants
MAX_RETRIES == 3

Ids == 1..MaxPosts
Ticks == 1..MaxTicks

NULL == "NULL"       \* SQL NULL in a text column
NullTime == <<>>     \* SQL NULL in a timestamp column

\* ASCII codes of the characters that occur in the modelled suffix
DOT == 46
ZED == 90
Digit(n) == 48 + n

\* the URN LinkedIn gives the k-th post it is asked to create
Urn(k) == "urn:li:share:" \o ToString(k)
Errors == {"rate_limited"}

\* --------------------------------------------------------- time as strings

\* Date.prototype.toISOString: always three fraction digits
toISOString(ms) ==
    << Digit((ms \div 1000) % 10), DOT,
       Digit((ms \div 100) % 10), Digit((ms \div 10) % 10), Digit(ms % 10),
       ZED >>

\* new Date(s) for a string the schema accepted: seconds plus the fraction
\* digits up to millisecond precision
FracDigit(s, i) == IF Len(s) >= 3 + i /\ s[2] = DOT /\ s[2 + i] # ZED
                   THEN s[2 + i] - 48 ELSE 0

ParseDate(s) ==
    (s[1] - 48) * 1000 + FracDigit(s, 1) * 100 + FracDigit(s, 2) * 10
        + FracDigit(s, 3)

\* SQLite BINARY collation on TEXT: memcmp, then the shorter string first
RECURSIVE TextLeqFrom(_, _, _)
TextLeqFrom(a, b, i) ==
    IF i > Len(a) THEN TRUE
    ELSE IF i > Len(b) THEN FALSE
    ELSE IF a[i] < b[i] THEN TRUE
    ELSE IF a[i] > b[i] THEN FALSE
    ELSE TextLeqFrom(a, b, i + 1)

TextLeq(a, b) == TextLeqFrom(a, b, 1)

\* scheduledTime strings a caller may pass; every one of them matches
\* z.string().datetime() (UTC "Z", any number of fraction digits)
InputTimes ==
    { << Digit(0), ZED >>,                          \* ...:S0Z
      << Digit(0), DOT, Digit(5), ZED >>,           \* ...:S0.5Z
      << Digit(0), DOT, Digit(5), Digit(5), ZED >>, \* ...:S0.55Z
      << Digit(1), ZED >>                           \* ...:S1Z
    }

VARIABLES
    posts,      \* the scheduled_posts table: id -> row
    now,        \* wall clock, milliseconds
    started,    \* startScheduler has run
    ticks,      \* per execution of processDuePosts: pc, batch, idx
    ret,        \* what the last tool call returned or threw
    attempts,   \* publishPost calls that have resolved
    cancelled,  \* per id, number of cancelPost calls that returned a record
    exit        \* how the scheduler process ended: "none" while it has not

vars == << posts, now, started, ticks, ret, attempts, cancelled, exit >>

IdleTick == [pc |-> "idle", batch |-> <<>>, idx |-> 0]

Init ==
    /\ posts = << >>
    /\ now = 0
    /\ started = FALSE
    /\ ticks = [t \in Ticks |-> IdleTick]
    /\ ret = "none"
    /\ attempts = 0
    /\ cancelled = [i \in Ids |-> 0]
    /\ exit = "none"

Exists(db, id) == id \in DOMAIN db

\* ---------------------------------------------------------------- the store

\* a parameter the caller left out
UNDEFINED == "undefined"

\* a destructuring default: it applies to undefined only
WithDefault(value, default) == IF value = UNDEFINED THEN default ELSE value

\* an INSERT that leaves visibility to the column default
NewRow_PublicOnly(data) ==
    [ status |-> "pending", commentary |-> data.commentary,
      url |-> WithDefault(data.url, NULL), visibility |-> "PUBLIC",
      scheduledTime |-> data.scheduledTime,
      publishedAt |-> NullTime, postUrn |-> NULL, errorMessage |-> NULL,
      retryCount |-> 0 ]

\* addScheduledPost: INSERT with status 'pending', retry_count default 0
NewRow(data) ==
    [ status |-> "pending", commentary |-> data.commentary,
      url |-> WithDefault(data.url, NULL),
      visibility |-> WithDefault(data.visibility, "PUBLIC"),
      scheduledTime |-> data.scheduledTime,
      publishedAt |-> NullTime, postUrn |-> NULL, errorMessage |-> NULL,
      retryCount |-> 0 ]

\* uuidv4(): an id no row has; ids are opaque, the least free one is taken
FreshId(db) == CHOOSE i \in Ids \ DOMAIN db : \A j \in Ids \ DOMAIN db : i <= j

addScheduledPost(db, data) ==
    [ i \in DOMAIN db \cup {FreshId(db)} |->
        IF i \in DOMAIN db THEN db[i] ELSE NewRow(data) ]

\* what addScheduledPost returns: getScheduledPost(id) of the new row
addedPost(db, data) ==
    [ id |-> FreshId(db), post |-> addScheduledPost(db, data)[FreshId(db)] ]

\* getScheduledPost: the row as a one-element sequence, << >> for null
getScheduledPost(db, id) == IF Exists(db, id) THEN << db[id] >> ELSE << >>

\* a due test without "status = 'pending'"
IsDue_AnyStatus(row, nowText) == TextLeq(row.scheduledTime, nowText)

\* getDuePosts: WHERE status = 'pending' AND scheduled_time <= ?  (TEXT compare)
IsDue(row, nowText) ==
    row.status = "pending" /\ TextLeq(row.scheduledTime, nowText)

DueIds(db, ms) == { i \in DOMAIN db : IsDue(db[i], toISOString(ms)) }

\* ORDER BY scheduled_time ASC; rows with equal text come in any order
Snapshot(db, i) == [id |-> i, retryCount |-> db[i].retryCount]

getDuePosts(db, ms) ==
    LET due == DueIds(db, ms)
        n == Cardinality(due)
    IN { [k \in 1..n |-> Snapshot(db, f[k])] :
           f \in { g \in [1..n -> due] :
                     /\ \A a, b \in 1..n : a # b => g[a] # g[b]
                     /\ \A a, b \in 1..n : a < b =>
                          TextLeq(db[g[a]].scheduledTime, db[g[b]].scheduledTime) } }

\* a pre-check that counts the failed records instead of the pending ones
pendingCount_Failed(db) == Cardinality({ i \in DOMAIN db : db[i].status = "failed" })

\* getScheduledPosts('pending', 100).length
pendingCount(db) == Cardinality({ i \in DOMAIN db : db[i].status = "pending" })

\* markAsPublished without "post_urn = ?"
markAsPublished_NoUrn(db, id, postUrn, ms) ==
    IF Exists(db, id)
    THEN [db EXCEPT ![id].status = "published",
                    ![id].publishedAt = toISOString(ms)]
    ELSE db

\* markAsPublished: UPDATE ... WHERE id = ?
markAsPublished(db, id, postUrn, ms) ==
    IF Exists(db, id)
    THEN [db EXCEPT ![id].status = "published",
                    ![id].publishedAt = toISOString(ms),
                    ![id].postUrn = postUrn]
    ELSE db

\* markAsFailed without "retry_count = retry_count + 1"
markAsFailed_NoIncrement(db, id, errorMessage) ==
    IF Exists(db, id)
    THEN [db EXCEPT ![id].status = "failed", ![id].errorMessage = errorMessage]
    ELSE db

\* markAsFailed: UPDATE ... WHERE id = ?
markAsFailed(db, id, errorMessage) ==
    IF Exists(db, id)
    THEN [db EXCEPT ![id].status = "failed",
                    ![id].errorMessage = errorMessage,
                    ![id].retryCount = @ + 1]
    ELSE db

\* cancelPost with the status test dropped from its WHERE clause
cancelChanges_AnyStatus(db, id) == Exists(db, id)

\* cancelPost: UPDATE ... WHERE id = ? AND status = 'pending'
cancelChanges(db, id) == Exists(db, id) /\ db[id].status = "pending"

cancelPost(db, id) ==
    IF cancelChanges(db, id)
    THEN [db EXCEPT ![id].status = "cancelled"]
    ELSE db

\* a reset without "AND status = 'failed'"
resetChanges_AnyStatus(db, id) == Exists(db, id)

\* resetForRetry: UPDATE ... WHERE id = ? AND status = 'failed'
resetChanges(db, id) == Exists(db, id) /\ db[id].status = "failed"

resetForRetry(db, id) ==
    IF resetChanges(db, id)
    THEN [db EXCEPT ![id].status = "pending", ![id].errorMessage = NULL]
    ELSE db

\* a delete that reports success whatever it removed
deleteChanges_Always(db, id) == TRUE

\* deleteScheduledPost: DELETE ... WHERE id = ?; returns changes > 0
deleteChanges(db, id) == Exists(db, id)

deleteScheduledPost(db, id) == [ i \in DOMAIN db \ {id} |-> db[i] ]

\* a reschedule without "AND status = 'pending'"
rescheduleChanges_AnyStatus(db, id) == Exists(db, id)

\* reschedulePost: UPDATE ... WHERE id = ? AND status = 'pending'
rescheduleChanges(db, id) == Exists(db, id) /\ db[id].status = "pending"

reschedulePost(db, id, newScheduledTime) ==
    IF rescheduleChanges(db, id)
    THEN [db EXCEPT ![id].scheduledTime = newScheduledTime]
    ELSE db

\* ---------------------------------------------------------------- the clock

\* wall-clock time passes, half a second at a time
Advance ==
    /\ now < MaxClock * 500
    /\ now' = now + 500
    /\ UNCHANGED << posts, started, ticks, ret, attempts, cancelled, exit >>

\* ------------------------------------------------------------ the tool layer

\* the refinement with >= in place of >
InFuture_OrNow(scheduledTime, ms) == ParseDate(scheduledTime) >= ms

\* SchedulePostInputSchema .refine: new Date(data.scheduledTime) > new Date()
InFuture(scheduledTime, ms) == ParseDate(scheduledTime) > ms

\* linkedin_schedule_post: parse (throws on a validation error), then INSERT
scheduleResult(scheduledTime, ms) ==
    IF InFuture(scheduledTime, ms) THEN "pending" ELSE "validation_error"

\* the validated input the tool hands to addScheduledPost: url || null,
\* visibility with the schema default
SchedulePostInput(scheduledTime) ==
    [ commentary |-> "Launch day!", scheduledTime |-> scheduledTime,
      url |-> NULL, visibility |-> "PUBLIC" ]

\* the tool's return value, built from the record addScheduledPost returned
scheduleOutput(added) ==
    [ postId |-> added.id, scheduledTime |-> added.post.scheduledTime,
      status |-> added.post.status ]

linkedin_schedule_post(scheduledTime) ==
    /\ IF scheduleResult(scheduledTime, now) = "pending"
       THEN /\ Cardinality(DOMAIN posts) < MaxPosts
            /\ posts' = addScheduledPost(posts, SchedulePostInput(scheduledTime))
       ELSE posts' = posts
    /\ ret' = scheduleResult(scheduledTime, now)
    /\ UNCHANGED << now, started, ticks, attempts, cancelled, exit >>

\* a tool that does not test cancelPost's result for null
cancelResult_NoNullCheck(db, id) == "cancelled"

\* linkedin_cancel_scheduled_post: cancelPost, throws when it returned null
cancelResult(db, id) ==
    IF cancelChanges(db, id) THEN "cancelled" ELSE "not_found_or_not_pending"

linkedin_cancel_scheduled_post(id) ==
    /\ posts' = cancelPost(posts, id)
    /\ cancelled' = IF cancelResult(posts, id) = "cancelled"
                    THEN [cancelled EXCEPT ![id] = IF @ < 2 THEN @ + 1 ELSE @]
                    ELSE cancelled
    /\ ret' = cancelResult(posts, id)
    /\ UNCHANGED << now, started, ticks, attempts, exit >>

\* linkedin_get_scheduled_post: getScheduledPost, throws when not found
getResult(db, id) ==
    IF getScheduledPost(db, id) = << >> THEN "not_found" ELSE "found"

linkedin_get_scheduled_post(id) ==
    /\ ret' = getResult(posts, id)
    /\ UNCHANGED << posts, now, started, ticks, attempts, cancelled, exit >>

\* linkedin_list_scheduled_posts: the optional status filter and the limit
Statuses == {"pending", "published", "failed", "cancelled"}

Filters == Statuses \cup {NULL}

Limits == {1, 2, 50}

Matches(row, status) == status = NULL \/ row.status = status

Min(a, b) == IF a <= b THEN a ELSE b

\* getScheduledPosts: WHERE status = ? (when given) ORDER BY scheduled_time
\* ASC LIMIT ?; rows with equal text come in any order
getScheduledPosts(db, status, limit) ==
    LET hit == { i \in DOMAIN db : Matches(db[i], status) }
        n == Cardinality(hit)
    IN { [k \in 1..Min(n, limit) |-> [id |-> f[k], post |-> db[f[k]]]] :
           f \in { g \in [1..n -> hit] :
                     /\ \A a, b \in 1..n : a # b => g[a] # g[b]
                     /\ \A a, b \in 1..n : a < b =>
                          TextLeq(db[g[a]].scheduledTime, db[g[b]].scheduledTime) } }

\* what the tool returns: { posts, count: posts.length }
listOutput(db, status, limit) ==
    { [posts |-> found, count |-> Len(found)] :
        found \in getScheduledPosts(db, status, limit) }

\* the call returns a member of listOutput(posts, status, limit) and writes
\* nothing
linkedin_list_scheduled_posts(status, limit) ==
    /\ ret' = "listed"
    /\ UNCHANGED << posts, now, started, ticks, attempts, cancelled, exit >>

\* ---------------------------------------------------------------- the daemon

CurrentPost(t) == ticks[t].batch[ticks[t].idx]

\* a tick has called publishPost for the record and not yet written its outcome
Publishing(id) ==
    \E t \in Ticks : ticks[t].pc = "awaiting" /\ CurrentPost(t).id = id

Running(t) == ticks[t].pc # "idle"

\* the daemon is one single-threaded process: from markAsFailed to the retry
\* decision a tick runs without an await, so no other code of the daemon
\* runs in between (the tool server, another process, may)
DaemonBusy == \E u \in Ticks : ticks[u].pc = "failed"

\* the scheduler process has not ended
Alive == exit = "none"

\* processDuePosts up to its first await: the snapshot, then publishPost for
\* the first record of the batch (or the return when nothing is due)
Begin(batch) ==
    IF batch = << >> THEN IdleTick
    ELSE [pc |-> "awaiting", batch |-> batch, idx |-> 1]

\* a loop that stops at the first record whose publishPost failed
Continue_BreakOnFailure(tick) ==
    IF tick.pc = "awaiting" /\ tick.idx < Len(tick.batch)
    THEN [tick EXCEPT !.pc = "awaiting", !.idx = @ + 1]
    ELSE IdleTick

\* the for loop moves on: publishPost for the next record, or the return
Continue(tick) ==
    IF tick.idx < Len(tick.batch)
    THEN [tick EXCEPT !.pc = "awaiting", !.idx = @ + 1]
    ELSE IdleTick

\* slots are interchangeable: a new execution takes the least idle one
IdleSlot(t) ==
    /\ ~Running(t)
    /\ \A u \in Ticks : ~Running(u) => t <= u

\* a startScheduler that only installs the timer
startScheduler_NoInitialCheck ==
    /\ ~started
    /\ Alive
    /\ ~DaemonBusy
    /\ started' = TRUE
    /\ UNCHANGED << posts, now, ticks, ret, attempts, cancelled, exit >>

\* startScheduler: the initial check, not awaited; cron.schedule arms the timer
startScheduler ==
    /\ ~started
    /\ Alive
    /\ ~DaemonBusy
    /\ started' = TRUE
    /\ \E batch \in getDuePosts(posts, now) :
         ticks' = [ticks EXCEPT ![1] = Begin(batch)]
    /\ UNCHANGED << posts, now, ret, attempts, cancelled, exit >>

\* the cron callback: runs processDuePosts when some record is pending
cronTick(t) ==
    /\ started
    /\ Alive
    /\ ~DaemonBusy
    /\ IdleSlot(t)
    /\ pendingCount(posts) > 0
    /\ \E batch \in getDuePosts(posts, now) :
         ticks' = [ticks EXCEPT ![t] = Begin(batch)]
    /\ UNCHANGED << posts, now, started, ret, attempts, cancelled, exit >>

\* publishPost resolved with success: markAsPublished, then the loop moves on
publishSucceeded(t) ==
    /\ ticks[t].pc = "awaiting"
    /\ Alive
    /\ ~DaemonBusy
    /\ attempts < MaxCalls
    /\ attempts' = attempts + 1
    /\ posts' = markAsPublished(posts, CurrentPost(t).id, Urn(attempts + 1), now)
    /\ ticks' = [ticks EXCEPT ![t] = Continue(@)]
    /\ UNCHANGED << now, started, ret, cancelled, exit >>

\* a failure branch that goes on to the retry test without markAsFailed
publishFailed_NoWrite(t, error) ==
    /\ ticks[t].pc = "awaiting"
    /\ Alive
    /\ ~DaemonBusy
    /\ attempts < MaxCalls
    /\ attempts' = attempts + 1
    /\ ticks' = [ticks EXCEPT ![t].pc = "failed"]
    /\ UNCHANGED << posts, now, started, ret, cancelled, exit >>

\* publishPost resolved with failure: markAsFailed
publishFailed(t, error) ==
    /\ ticks[t].pc = "awaiting"
    /\ Alive
    /\ ~DaemonBusy
    /\ attempts < MaxCalls
    /\ attempts' = attempts + 1
    /\ posts' = markAsFailed(posts, CurrentPost(t).id, error)
    /\ ticks' = [ticks EXCEPT ![t].pc = "failed"]
    /\ UNCHANGED << now, started, ret, cancelled, exit >>

\* a retry test that gives up one attempt early
ShouldRetry_OneEarly(post) == post.retryCount + 2 < MAX_RETRIES

\* if (post.retryCount + 1 < MAX_RETRIES): tested on the batch's snapshot
ShouldRetry(post) == post.retryCount + 1 < MAX_RETRIES

\* the retry decision after markAsFailed, then the loop moves on
retryDecision(t) ==
    /\ ticks[t].pc = "failed"
    /\ Alive
    /\ posts' = IF ShouldRetry(CurrentPost(t))
                THEN resetForRetry(posts, CurrentPost(t).id)
                ELSE posts
    /\ ticks' = [ticks EXCEPT ![t] = Continue(@)]
    /\ UNCHANGED << now, started, ret, attempts, cancelled, exit >>

Next ==
    \/ Advance
    \/ \E s \in InputTimes : linkedin_schedule_post(s)
    \/ \E id \in Ids : linkedin_cancel_scheduled_post(id)
    \/ \E id \in Ids : linkedin_get_scheduled_post(id)
    \/ startScheduler
    \/ \E t \in Ticks : cronTick(t)
    \/ \E t \in Ticks : publishSucceeded(t)
    \/ \E t \in Ticks, e \in Errors : publishFailed(t, e)
    \/ \E t \in Ticks : retryDecision(t)

Spec == Init /\ [][Next]_vars

\* the list tool beside schedule, cancel and the daemon
NextList ==
    \/ Advance
    \/ \E s \in InputTimes : linkedin_schedule_post(s)
    \/ \E id \in Ids : linkedin_cancel_scheduled_post(id)
    \/ \E status \in Filters, limit \in Limits :
          linkedin_list_scheduled_posts(status, limit)
    \/ startScheduler
    \/ \E t \in Ticks : cronTick(t)
    \/ \E t \in Ticks : publishSucceeded(t)
    \/ \E t \in Ticks, e \in Errors : publishFailed(t, e)
    \/ \E t \in Ticks : retryDecision(t)

SpecList == Init /\ [][NextList]_vars

\* ---------------------------------------------------- the store on its own

\* calls made on the database object directly, as its own callers and tests do
StoreInputs ==
    { [ commentary |-> "Launch day!", scheduledTime |-> << Digit(0), DOT, Digit(5), ZED >>,
        url |-> UNDEFINED, visibility |-> UNDEFINED ],
      [ commentary |-> "Second post", scheduledTime |-> << Digit(1), ZED >>,
        url |-> "https://example.com", visibility |-> "CONNECTIONS" ],
      [ commentary |-> "Launch day!", scheduledTime |-> << Digit(0), DOT, Digit(5), Digit(5), ZED >>,
        url |-> NULL, visibility |-> "PUBLIC" ] }

callAddScheduledPost(data) ==
    /\ Cardinality(DOMAIN posts) < MaxPosts
    /\ posts' = addScheduledPost(posts, data)
    /\ ret' = "record"
    /\ UNCHANGED << now, started, ticks, attempts, cancelled, exit >>

callDeleteScheduledPost(id) ==
    /\ posts' = deleteScheduledPost(posts, id)
    /\ ret' = IF deleteChanges(posts, id) THEN "true" ELSE "false"
    /\ UNCHANGED << now, started, ticks, attempts, cancelled, exit >>

callReschedulePost(id, newScheduledTime) ==
    /\ posts' = reschedulePost(posts, id, newScheduledTime)
    /\ ret' = IF rescheduleChanges(posts, id) THEN "record" ELSE "null"
    /\ UNCHANGED << now, started, ticks, attempts, cancelled, exit >>

callResetForRetry(id) ==
    /\ posts' = resetForRetry(posts, id)
    /\ ret' = IF resetChanges(posts, id) THEN "record" ELSE "null"
    /\ UNCHANGED << now, started, ticks, attempts, cancelled, exit >>

callCancelPost(id) ==
    /\ posts' = cancelPost(posts, id)
    /\ ret' = IF cancelChanges(posts, id) THEN "record" ELSE "null"
    /\ UNCHANGED << now, started, ticks, attempts, cancelled, exit >>

callMarkAsPublished(id) ==
    /\ Exists(posts, id)
    /\ posts' = markAsPublished(posts, id, Urn(id), now)
    /\ ret' = "record"
    /\ UNCHANGED << now, started, ticks, attempts, cancelled, exit >>

callMarkAsFailed(id, errorMessage) ==
    /\ Exists(posts, id)
    /\ posts[id].retryCount < MAX_RETRIES
    /\ posts' = markAsFailed(posts, id, errorMessage)
    /\ ret' = "record"
    /\ UNCHANGED << now, started, ticks, attempts, cancelled, exit >>

NextStore ==
    \/ \E data \in StoreInputs : callAddScheduledPost(data)
    \/ \E s \in InputTimes : linkedin_schedule_post(s)
    \/ \E id \in Ids : callDeleteScheduledPost(id)
    \/ \E id \in Ids, s \in InputTimes : callReschedulePost(id, s)
    \/ \E id \in Ids : callResetForRetry(id)
    \/ \E id \in Ids : callCancelPost(id)
    \/ \E id \in Ids : callMarkAsPublished(id)
    \/ \E id \in Ids, e \in Errors : callMarkAsFailed(id, e)

SpecStore == Init /\ [][NextStore]_vars

\* ------------------------------------------------------ the daemon, fairly

\* the inputs that are due, as instants and as text, before the clock stops
LiveInputTimes ==
    { << Digit(0), DOT, Digit(5), ZED >>,             \* ...:S0.5Z
      << Digit(0), DOT, Digit(5), Digit(5), ZED >> }  \* ...:S0.55Z

\* publishPost resolves with success; the answers are not counted, so every
\* call returns the same URN
publishSucceededLive(t) ==
    /\ ticks[t].pc = "awaiting"
    /\ Alive
    /\ ~DaemonBusy
    /\ posts' = markAsPublished(posts, CurrentPost(t).id, Urn(attempts + 1), now)
    /\ ticks' = [ticks EXCEPT ![t] = Continue(@)]
    /\ UNCHANGED << now, started, ret, attempts, cancelled, exit >>

\* publishPost resolves with a failure
publishFailedLive(t, error) ==
    /\ ticks[t].pc = "awaiting"
    /\ Alive
    /\ ~DaemonBusy
    /\ posts' = markAsFailed(posts, CurrentPost(t).id, error)
    /\ ticks' = [ticks EXCEPT ![t].pc = "failed"]
    /\ UNCHANGED << now, started, ret, attempts, cancelled, exit >>

\* the adapter answers the call tick t is awaiting, one way or the other
Answered(t) ==
    \/ publishSucceededLive(t)
    \/ \E e \in Errors : publishFailedLive(t, e)

\* schedule calls and the daemon
NextLive ==
    \/ Advance
    \/ \E s \in LiveInputTimes : linkedin_schedule_post(s)
    \/ startScheduler
    \/ \E t \in Ticks : cronTick(t)
    \/ \E t \in Ticks : publishSucceededLive(t)
    \/ \E t \in Ticks, e \in Errors : publishFailedLive(t, e)
    \/ \E t \in Ticks : retryDecision(t)

\* time passes, the timer keeps firing, every awaited call is answered and
\* the synchronous code after an answer runs
Fairness ==
    /\ WF_vars(Advance)
    /\ WF_vars(\E t \in Ticks : cronTick(t))
    /\ \A t \in Ticks : WF_vars(Answered(t))
    /\ \A t \in Ticks : WF_vars(retryDecision(t))

SpecLive == Init /\ [][NextLive]_vars /\ Fairness

\* ------------------------------------------- store errors and termination

\* what Node does with a rejected promise nobody handles: end the process
\* (the default) or only warn
UnhandledRejection == {"crash", "none"}

\* startScheduler when getDuePosts throws inside the initial check:
\* processDuePosts() rejects and the .then() has no rejection handler
startupStoreError ==
    /\ ~started
    /\ Alive
    /\ started' = TRUE
    /\ exit' \in UnhandledRejection
    /\ UNCHANGED << posts, now, ticks, ret, attempts, cancelled >>

\* the cron callback when getScheduledPosts or getDuePosts throws: the
\* callback's promise rejects into the timer library, nothing is written
cronStoreError ==
    /\ started
    /\ Alive
    /\ ~DaemonBusy
    /\ UNCHANGED vars

\* the SIGINT / SIGTERM handler: task.stop(), db.close(), process.exit(0)
terminate ==
    /\ started
    /\ Alive
    /\ exit' = "signal"
    /\ UNCHANGED << posts, now, started, ticks, ret, attempts, cancelled >>

\* the daemon with store errors and termination signals, beside schedule calls
NextFaults ==
    \/ Advance
    \/ \E s \in InputTimes : linkedin_schedule_post(s)
    \/ startScheduler
    \/ \E t \in Ticks : cronTick(t)
    \/ \E t \in Ticks : publishSucceeded(t)
    \/ \E t \in Ticks, e \in Errors : publishFailed(t, e)
    \/ \E t \in Ticks : retryDecision(t)
    \/ startupStoreError
    \/ cronStoreError
    \/ terminate

SpecFaults == Init /\ [][NextFaults]_vars

\* ------------------------------------------------------------------ claims

Status(id) == posts[id].status

\* a tick calls publishPost for the record in this step
PublishCalled(id) ==
    \E t \in Ticks :
        /\ ticks'[t].pc = "awaiting"
        /\ ticks'[t].batch[ticks'[t].idx].id = id
        /\ ~(ticks[t].pc = "awaiting" /\ ticks[t].idx = ticks'[t].idx)

\* C1: once a record is published or cancelled, no step changes its status
C1_TerminalStable ==
    [][\A id \in DOMAIN posts :
          Status(id) \in {"published", "cancelled"} =>
              posts'[id].status = Status(id)]_vars

\* C2: a cancel of a record a tick is publishing returns null and changes
\* nothing
C2_NoCancelWhilePublishing ==
    [][\A id \in Ids :
          (Publishing(id) /\ linkedin_cancel_scheduled_post(id)) =>
              (ret' = "not_found_or_not_pending" /\ posts' = posts)]_vars

\* C3: at most one execution of processDuePosts is in progress
C3_OneTickAtATime == Cardinality({ t \in Ticks : Running(t) }) <= 1

\* C4: a record that has failed MAX_RETRIES times is failed, is never set
\* back to pending and is never passed to publishPost again
C4_RetryCeiling ==
    [][\A id \in DOMAIN posts :
          posts[id].retryCount >= MAX_RETRIES =>
              /\ Status(id) = "failed"
              /\ posts'[id].status # "pending"
              /\ ~PublishCalled(id)]_vars

\* C5: a record is in the due set at `now` exactly when it is pending and
\* its scheduledTime, as an instant, is at or before `now`
C5_DueSetCorrect ==
    \A id \in DOMAIN posts :
        id \in DueIds(posts, now) <=>
            (Status(id) = "pending" /\ ParseDate(posts[id].scheduledTime) <= now)

\* C6: cancelPost returns a record exactly when the record exists and is
\* pending at the call; it then sets the status to cancelled and changes no
\* other field and no other record
C6_CancelGuard ==
    [][\A id \in Ids :
          linkedin_cancel_scheduled_post(id) =>
              /\ ret' = "cancelled" <=> (Exists(posts, id) /\ Status(id) = "pending")
              /\ ret' = "cancelled" =>
                    /\ DOMAIN posts' = DOMAIN posts
                    /\ posts'[id] = [posts[id] EXCEPT !.status = "cancelled"]
                    /\ \A j \in DOMAIN posts \ {id} : posts'[j] = posts[j]
              /\ ret' # "cancelled" => posts' = posts]_vars

\* a cancel has returned a record, which is now cancelled
C6_Witness ==
    \E id \in DOMAIN posts :
        ret = "cancelled" /\ Status(id) = "cancelled" /\ cancelled[id] = 1

\* C7: for one id at most one cancelPost call returns a record
C7_CancelAtMostOnce == \A id \in Ids : cancelled[id] <= 1

\* C8: linkedin_schedule_post with a scheduledTime at or before the current
\* time fails validation and leaves the store as it was
C8_FutureOnly ==
    [][\A s \in InputTimes :
          (ParseDate(s) <= now /\ linkedin_schedule_post(s)) =>
              (ret' = "validation_error" /\ posts' = posts)]_vars

\* a schedule call was rejected although the time it named had only just
\* been reached and the store had room
C8_Witness ==
    /\ ret = "validation_error"
    /\ now > 0
    /\ Cardinality(DOMAIN posts) < MaxPosts

\* C9: publishedAt and postUrn are written together, at most once, and only
\* by a step that takes the record from pending to published
C9_PublishedOnce ==
    [][\A id \in DOMAIN posts :
          (posts'[id].publishedAt # posts[id].publishedAt
              \/ posts'[id].postUrn # posts[id].postUrn) =>
              /\ posts[id].publishedAt = NullTime
              /\ posts[id].postUrn = NULL
              /\ posts'[id].publishedAt # NullTime
              /\ posts'[id].postUrn # NULL
              /\ Status(id) = "pending"
              /\ posts'[id].status = "published"]_vars

\* the edges of the status state machine
LegalEdges ==
    { << "pending", "published" >>, << "pending", "failed" >>,
      << "failed", "pending" >>, << "pending", "cancelled" >> }

\* C10: every step that changes a status follows one of the four edges
C10_LegalTransitions ==
    [][\A id \in DOMAIN posts :
          posts'[id].status # Status(id) =>
              << Status(id), posts'[id].status >> \in LegalEdges]_vars

\* C12: a store error during a tick never ends the scheduler process
C12_StoreErrorSurvived == exit # "crash"

\* C13: when the process exits on a termination signal, no record is left
\* with its publishPost call started and its outcome unwritten
C13_NoHalfTransition ==
    exit = "signal" => \A id \in Ids : ~Publishing(id)

\* a tick has just had its publishPost call answered with a failure for id
FailureWritten(id) ==
    \E t \in Ticks : /\ ticks[t].pc = "awaiting"
                     /\ ticks'[t].pc = "failed"
                     /\ CurrentPost(t).id = id

\* C11: retryCount starts at 0, grows by exactly one on each markAsFailed,
\* changes in no other step, and could only go down in a step that takes the
\* record from failed back to pending and clears errorMessage
C11_RetryCountMonotone ==
    [][ /\ \A id \in DOMAIN posts' \ DOMAIN posts : posts'[id].retryCount = 0
        /\ \A id \in DOMAIN posts :
              /\ id \in DOMAIN posts'
              /\ FailureWritten(id)
                    => posts'[id].retryCount = posts[id].retryCount + 1
              /\ ~FailureWritten(id)
                    => \/ posts'[id].retryCount = posts[id].retryCount
                       \/ /\ posts'[id].retryCount < posts[id].retryCount
                          /\ posts[id].status = "failed"
                          /\ posts'[id].status = "pending"
                          /\ posts'[id].errorMessage = NULL
      ]_vars

\* a record that failed twice and was put back for a third attempt
C11_Witness ==
    \E id \in DOMAIN posts : /\ posts[id].retryCount = 2
                             /\ posts[id].status = "pending"
                             /\ posts[id].errorMessage = NULL

\* the ids of a batch, in the order the loop visits them
BatchIds(tick) == [k \in 1..Len(tick.batch) |-> tick.batch[k].id]

NoRepeats(seq) == \A a, b \in 1..Len(seq) : seq[a] = seq[b] => a = b

\* C14: a tick walks its batch once from the first record to the last: the
\* batch names no record twice, every record is passed to publishPost in its
\* turn, a failed record is followed by the next one and never by itself,
\* and the tick ends only after the last record's outcome
C14_BatchOnceEach ==
    [][ \A t \in Ticks :
          /\ (~Running(t) /\ Running(t)')
                => /\ ticks'[t].pc = "awaiting"
                   /\ ticks'[t].idx = 1
                   /\ NoRepeats(BatchIds(ticks'[t]))
          /\ (Running(t) /\ Running(t)' /\ ticks'[t] # ticks[t])
                => /\ ticks'[t].batch = ticks[t].batch
                   /\ \/ /\ ticks[t].pc = "awaiting"
                         /\ ticks'[t].pc = "failed"
                         /\ ticks'[t].idx = ticks[t].idx
                      \/ /\ ticks'[t].pc = "awaiting"
                         /\ ticks'[t].idx = ticks[t].idx + 1
                         /\ ticks'[t].idx <= Len(ticks[t].batch)
          /\ (Running(t) /\ ~Running(t)')
                => ticks[t].idx = Len(ticks[t].batch)
      ]_vars

\* a tick that is on its second record after the first one failed in this
\* tick and was put back to pending
C14_Witness ==
    \E t \in Ticks :
        /\ ticks[t].pc = "awaiting"
        /\ ticks[t].idx = 2
        /\ posts[ticks[t].batch[1].id].status = "pending"
        /\ posts[ticks[t].batch[1].id].retryCount = ticks[t].batch[1].retryCount + 1

\* no execution of processDuePosts is in progress
BetweenTicks == \A t \in Ticks : ~Running(t)

\* C15: between ticks, a record whose last attempt failed below the retry
\* ceiling still shows that attempt's errorMessage to getScheduledPost
C15_FailureObservable ==
    BetweenTicks =>
        \A id \in DOMAIN posts :
            LET post == getScheduledPost(posts, id)[1]
            IN  (/\ post.status \in {"pending", "failed"}
                 /\ post.retryCount > 0
                 /\ post.retryCount < MAX_RETRIES)
                    => post.errorMessage # NULL

\* C16: the records of a batch are in non-decreasing order of the instants
\* their scheduledTime values denote
C16_BatchInInstantOrder ==
    \A t \in Ticks :
        \A a, b \in 1..Len(ticks[t].batch) :
            a < b => ParseDate(posts[ticks[t].batch[a].id].scheduledTime)
                        <= ParseDate(posts[ticks[t].batch[b].id].scheduledTime)

\* C17: for every filter and limit the list tool returns records that match
\* the filter, each once, as many as match up to the limit, earliest
\* scheduledTime first, leaving out only records that are not earlier than
\* the ones returned, with count equal to the length of the array
C17_ListContract ==
    \A status \in Filters, limit \in Limits :
        \A out \in listOutput(posts, status, limit) :
            LET found == out.posts
                hit == { i \in DOMAIN posts : Matches(posts[i], status) }
                got == { found[k].id : k \in 1..Len(found) }
            IN  /\ out.count = Len(found)
                /\ Len(found) = Min(Cardinality(hit), limit)
                /\ got \subseteq hit
                /\ Cardinality(got) = Len(found)
                /\ \A k \in 1..Len(found) : found[k].post = posts[found[k].id]
                /\ \A a, b \in 1..Len(found) :
                      a < b => ParseDate(found[a].post.scheduledTime)
                                  <= ParseDate(found[b].post.scheduledTime)
                /\ \A i \in hit \ got : \A k \in 1..Len(found) :
                      ParseDate(found[k].post.scheduledTime)
                          <= ParseDate(posts[i].scheduledTime)

\* a tick has taken the record into a batch at some time: it is in a running
\* tick's batch, or an outcome was written for it
Selected(id) ==
    \/ \E t \in Ticks : \E k \in 1..Len(ticks[t].batch) : ticks[t].batch[k].id = id
    \/ posts[id].retryCount > 0
    \/ posts[id].publishedAt # NullTime

CancelledUnselected(id) ==
    /\ id \in DOMAIN posts
    /\ posts[id].status = "cancelled"
    /\ ~Selected(id)

\* C18: a record cancelled before any tick selected it is never selected or
\* passed to publishPost afterwards, and stays cancelled
C18_CancelBeforeSelection ==
    [][ \A id \in Ids :
          CancelledUnselected(id)
            => /\ CancelledUnselected(id)'
               /\ ~PublishCalled(id)
      ]_vars

\* a record cancelled before selection whose scheduledTime has passed, while
\* a tick is publishing another record
C18_Witness ==
    \E id \in Ids :
        /\ CancelledUnselected(id)
        /\ TextLeq(posts[id].scheduledTime, toISOString(now))
        /\ \E t \in Ticks : ticks[t].pc = "awaiting"

\* C19: cancel on an absent or non-pending record and get on an absent
\* record fail with their own error and change no stored record
C19_FailedCallsChangeNothing ==
    [][ \A id \in Ids :
          /\ (~cancelChanges(posts, id) /\ linkedin_cancel_scheduled_post(id))
                => /\ ret' = "not_found_or_not_pending"
                   /\ posts' = posts
          /\ (~Exists(posts, id) /\ linkedin_get_scheduled_post(id))
                => /\ ret' = "not_found"
                   /\ posts' = posts
      ]_vars

\* the last call was a cancel that failed while every id names a stored
\* record that is published, failed or cancelled
C19_Witness ==
    /\ ret = "not_found_or_not_pending"
    /\ DOMAIN posts = Ids
    /\ \A id \in Ids : posts[id].status \in {"published", "failed", "cancelled"}
    /\ \E id \in Ids : posts[id].status = "published"
    /\ \E id \in Ids : posts[id].status = "cancelled"

\* C20: no tick runs before startScheduler; the step that starts the
\* scheduler performs the due-post check itself, whether or not a cron tick
\* would have found pending records, and every other tick starts after it
C20_InitialCheckFirst ==
    [][ /\ ~started => BetweenTicks
        /\ (~started /\ started')
              => \E batch \in getDuePosts(posts, now) :
                    ticks' = [ticks EXCEPT ![1] = Begin(batch)]
        /\ \A t \in Ticks : (~Running(t) /\ Running(t)') => started'
      ]_vars

\* the scheduler is started and its first execution of processDuePosts is
\* awaiting the first publishPost call the adapter has been asked for
C20_Witness ==
    /\ started
    /\ attempts = 0
    /\ ticks[1].pc = "awaiting"
    /\ ticks[1].idx = 1
    /\ \A t \in Ticks \ {1} : ~Running(t)

\* C21: addScheduledPost adds one record under an id the store did not have,
\* pending, retryCount 0, publishedAt, postUrn and errorMessage null, with
\* the caller's commentary, scheduledTime, url and visibility (the defaults
\* where the caller gave none), returns that record and changes no other;
\* linkedin_schedule_post returns its id, scheduledTime and 'pending'
C21_AddContract ==
    [][ /\ \A data \in StoreInputs :
              callAddScheduledPost(data)
                => LET added == addedPost(posts, data)
                   IN  /\ added.id \notin DOMAIN posts
                       /\ DOMAIN posts' = DOMAIN posts \cup {added.id}
                       /\ \A i \in DOMAIN posts : posts'[i] = posts[i]
                       /\ added.post = posts'[added.id]
                       /\ added.post.status = "pending"
                       /\ added.post.retryCount = 0
                       /\ added.post.publishedAt = NullTime
                       /\ added.post.postUrn = NULL
                       /\ added.post.errorMessage = NULL
                       /\ added.post.commentary = data.commentary
                       /\ added.post.scheduledTime = data.scheduledTime
                       /\ added.post.url = WithDefault(data.url, NULL)
                       /\ added.post.visibility = WithDefault(data.visibility, "PUBLIC")
        /\ \A s \in InputTimes :
              (InFuture(s, now) /\ linkedin_schedule_post(s))
                => LET added == addedPost(posts, SchedulePostInput(s))
                   IN  /\ added.id \notin DOMAIN posts
                       /\ added.post = posts'[added.id]
                       /\ \A i \in DOMAIN posts : posts'[i] = posts[i]
                       /\ scheduleOutput(added)
                            = [ postId |-> added.id, scheduledTime |-> s,
                                status |-> "pending" ]
                       /\ ret' = "pending"
      ]_vars

\* a second record was added beside one that has meanwhile failed, and it
\* carries its own link and visibility
C21_Witness ==
    /\ ret = "record"
    /\ DOMAIN posts = Ids
    /\ \E i, j \in Ids :
          /\ posts[i].status = "failed"
          /\ posts[j].status = "pending"
          /\ posts[j].visibility = "CONNECTIONS"
          /\ posts[j].url = "https://example.com"

\* C22: deleting an absent id returns false and changes nothing; deleting a
\* stored id returns true and removes that record and no other, so the id is
\* absent for a second delete
C22_DeleteContract ==
    [][ \A id \in Ids :
          callDeleteScheduledPost(id)
            => IF id \in DOMAIN posts
               THEN /\ ret' = "true"
                    /\ DOMAIN posts' = DOMAIN posts \ {id}
                    /\ \A i \in DOMAIN posts' : posts'[i] = posts[i]
                    /\ ~deleteChanges(posts', id)
               ELSE /\ ret' = "false"
                    /\ posts' = posts
      ]_vars

\* a delete has just returned false while another record is still stored
C22_Witness ==
    /\ ret = "false"
    /\ Cardinality(DOMAIN posts) = 1

\* C24: resetForRetry on a failed record returns it with status pending and
\* errorMessage cleared, every other field and record as before; on an
\* absent, pending, published or cancelled record it returns null and
\* changes nothing
C24_ResetContract ==
    [][ \A id \in Ids :
          callResetForRetry(id)
            => IF id \in DOMAIN posts /\ posts[id].status = "failed"
               THEN /\ ret' = "record"
                    /\ posts' = [posts EXCEPT ![id].status = "pending",
                                               ![id].errorMessage = NULL]
                    /\ posts'[id].retryCount = posts[id].retryCount
                    /\ posts'[id].scheduledTime = posts[id].scheduledTime
               ELSE /\ ret' = "null"
                    /\ posts' = posts
      ]_vars

\* a reset has just returned null while the store holds a published and a
\* cancelled record
C24_Witness ==
    /\ ret = "null"
    /\ \E i, j \in DOMAIN posts :
          /\ posts[i].status = "published"
          /\ posts[j].status = "cancelled"

\* C25: a stored record's scheduledTime changes only in a reschedulePost
\* call on it while it is pending; reschedulePost on a published, failed,
\* cancelled or absent record returns null and changes nothing
C25_RescheduleContract ==
    [][ /\ \A id \in DOMAIN posts \cap DOMAIN posts' :
              posts'[id].scheduledTime # posts[id].scheduledTime
                => /\ posts[id].status = "pending"
                   /\ \E s \in InputTimes : callReschedulePost(id, s)
        /\ \A id \in Ids, s \in InputTimes :
              callReschedulePost(id, s)
                => IF id \in DOMAIN posts /\ posts[id].status = "pending"
                   THEN /\ ret' = "record"
                        /\ posts' = [posts EXCEPT ![id].scheduledTime = s]
                   ELSE /\ ret' = "null"
                        /\ posts' = posts
      ]_vars

\* a reschedule has just returned null while the store holds a failed and a
\* published record
C25_Witness ==
    /\ ret = "null"
    /\ \E i, j \in DOMAIN posts :
          /\ posts[i].status = "failed"
          /\ posts[j].status = "published"

\* a tick has written a failure for the record and not yet decided on retry
Deciding(id) ==
    \E t \in Ticks : ticks[t].pc = "failed" /\ CurrentPost(t).id = id

\* C23: a record that was never cancelled or published and has failed i
\* times, 0 < i < MAX_RETRIES, is pending again with retryCount i once the
\* tick has handled the failure; a successful attempt leaves it published
\* with retryCount unchanged and postUrn the URN that attempt returned
C23_FailThenSucceed ==
    [][ /\ \A id \in DOMAIN posts :
              (/\ cancelled[id] = 0
               /\ posts[id].publishedAt = NullTime
               /\ posts[id].retryCount > 0
               /\ posts[id].retryCount < MAX_RETRIES
               /\ ~Deciding(id))
                 => posts[id].status = "pending"
        /\ \A t \in Ticks :
              publishSucceeded(t)
                => LET id == CurrentPost(t).id
                   IN  /\ posts'[id].status = "published"
                       /\ posts'[id].retryCount = posts[id].retryCount
                       /\ posts'[id].postUrn = Urn(attempts')
                       /\ posts'[id].publishedAt = toISOString(now)
      ]_vars

\* the only record failed twice, each time coming back to pending, and was
\* published by the third call with that call's URN
C23_Witness ==
    \E id \in Ids :
        /\ DOMAIN posts = {id}
        /\ cancelled[id] = 0
        /\ attempts = 3
        /\ posts[id].status = "published"
        /\ posts[id].retryCount = 2
        /\ posts[id].postUrn = Urn(3)

\* publishPost calls for the record that are still awaited
InFlight(id) ==
    Cardinality({ t \in Ticks : ticks[t].pc = "awaiting" /\ CurrentPost(t).id = id })

\* C26: the failed attempts of a record and the calls still awaited for it
\* never add up to more than MAX_RETRIES, and publishPost is never called
\* for a record whose stored retryCount is MAX_RETRIES or more
C26_AtMostMaxRetriesCalls ==
    [][ \A id \in DOMAIN posts :
          /\ posts[id].retryCount + InFlight(id) <= MAX_RETRIES
          /\ PublishCalled(id) => posts[id].retryCount < MAX_RETRIES
      ]_vars

\* C28: when a tick decides on a retry, its snapshot's retryCount + 1 is the
\* stored retryCount that markAsFailed has just written
C28_DecisionOnFreshCount ==
    \A t \in Ticks :
        ticks[t].pc = "failed"
          => CurrentPost(t).retryCount + 1 = posts[CurrentPost(t).id].retryCount

\* C27: a tick leaves an awaited publishPost call only by writing that
\* record's outcome, published on success or failed with one more retry on
\* failure, and moves to its next record only after that write
C27_OutcomeRecorded ==
    [][ \A t \in Ticks :
          /\ (ticks[t].pc = "awaiting" /\ ticks'[t] # ticks[t])
                => LET id == CurrentPost(t).id
                   IN  /\ \A i \in DOMAIN posts \ {id} : posts'[i] = posts[i]
                       /\ \/ /\ ticks'[t].pc = "failed"
                             /\ posts'[id].status = "failed"
                             /\ posts'[id].errorMessage \in Errors
                             /\ posts'[id].retryCount = posts[id].retryCount + 1
                          \/ /\ ticks'[t].pc # "failed"
                             /\ posts'[id].status = "published"
                             /\ posts'[id].postUrn # NULL
                             /\ posts'[id].publishedAt # NullTime
                             /\ posts'[id].retryCount = posts[id].retryCount
          /\ (Running(t) /\ Running(t)' /\ ticks'[t].idx # ticks[t].idx)
                => \/ ticks[t].pc = "failed"
                   \/ posts'[CurrentPost(t).id] # posts[CurrentPost(t).id]
      ]_vars

\* a tick is awaiting its second record after having published its first
C27_Witness ==
    \E t \in Ticks :
        /\ ticks[t].pc = "awaiting"
        /\ ticks[t].idx = 2
        /\ posts[ticks[t].batch[1].id].status = "published"
        /\ posts[ticks[t].batch[2].id].status = "pending"

\* C30: a record becomes published, or has its postUrn written, only in the
\* step in which a tick awaiting publishPost for that record gets a
\* success, and the postUrn stored is the URN that call returned
C30_PublishedOnlyOnSuccess ==
    [][ \A id \in DOMAIN posts :
          (\/ posts'[id].status = "published" /\ posts[id].status # "published"
           \/ posts'[id].postUrn # posts[id].postUrn)
            => /\ posts'[id].status = "published"
               /\ posts'[id].postUrn = Urn(attempts')
               /\ \E t \in Ticks : /\ ticks[t].pc = "awaiting"
                                    /\ CurrentPost(t).id = id
                                    /\ publishSucceeded(t)
      ]_vars

\* the second publishPost call succeeded and its URN is stored, beside a
\* record whose call failed and that holds no URN
C30_Witness ==
    \E i, j \in DOMAIN posts :
        /\ posts[i].status = "published"
        /\ posts[i].postUrn = Urn(2)
        /\ posts[j].retryCount = 1
        /\ posts[j].postUrn = NULL
        /\ posts[j].publishedAt = NullTime

PendingDue(id) ==
    /\ id \in DOMAIN posts
    /\ posts[id].status = "pending"
    /\ ParseDate(posts[id].scheduledTime) <= now

Settled(id) ==
    /\ id \in DOMAIN posts
    /\ \/ posts[id].status \in {"published", "cancelled"}
       \/ posts[id].status = "failed" /\ posts[id].retryCount >= MAX_RETRIES

\* C29: with the scheduler running, every record that is pending and due
\* is eventually published, cancelled, or failed with retryCount at the
\* ceiling
C29_DueEventuallySettled ==
    \A id \in Ids : (started /\ PendingDue(id)) ~> Settled(id)

\* one record has failed for good at the ceiling and another is published
C29_Witness ==
    \E i, j \in DOMAIN posts :
        /\ posts[i].status = "failed"
        /\ posts[i].retryCount = MAX_RETRIES
        /\ posts[j].status = "published"

====
